---- MODULE Spec2Model ----
(***************************************************************************)
(* Model of the check-api worker: the multi-provider key checker           *)
(* (providers, identifyProvider, checkApiKey, handleRequest) and the       *)
(* handler exported by functions/check.js (corsWrapper around the debug    *)
(* handleRequest).  Keys are sequences of one-character strings, so that   *)
(* the provider patterns are evaluated character by character.             *)
(***************************************************************************)
EXTENDS Integers, Sequences, FiniteSets

VARIABLES pc, handler, request, calls, outbound, completed, response

\* the lines the worker has written with console.log and console.error
VARIABLE console

\* the page: the click handler's position, the keys it submitted, the
\* content of the results <div>, the button, and the answer it received
VARIABLES fePc, feKeys, resultsDiv, btnDisabled, feAnswer

\* the number of fetch('/check') calls of the page that have not settled
VARIABLE feInFlight

feVars == <<fePc, feKeys, resultsDiv, btnDisabled, feAnswer, feInFlight>>

vars == <<pc, handler, request, calls, outbound, completed, response, console, feVars>>

(* ---------------- bounds of the model ---------------- *)

\* longest `keys` array of a request
MaxKeys == 2

\* most lines typed into the textarea
MaxLines == 3

(* ---------------- characters and strings ---------------- *)

Digits == {"0","1","2","3","4","5","6","7","8","9"}

Lower == {"a","b","c","d","e","f","g","h","i","j","k","l","m",
          "n","o","p","q","r","s","t","u","v","w","x","y","z"}

Upper == {"A","B","C","D","E","F","G","H","I","J","K","L","M",
          "N","O","P","Q","R","S","T","U","V","W","X","Y","Z"}

\* [a-zA-Z0-9]
Alnum == Lower \cup Upper \cup Digits

\* [a-zA-Z0-9_\-]
AlnumDash == Alnum \cup {"_", "-"}

Rep(c, n) == [i \in 1..n |-> c]

AllIn(s, from, to, C) == \A i \in from..to : s[i] \in C

\* String.prototype.startsWith
startsWith(s, p) == Len(s) >= Len(p) /\ SubSeq(s, 1, Len(p)) = p

\* String.prototype.substring(from, to), for 0 <= from <= to
substring(s, from, to) ==
    SubSeq(s, from + 1, IF to < Len(s) THEN to ELSE Len(s))

(* ---------------- JSON values that can appear as a key ---------------- *)

Str(s) == [t |-> "string", s |-> s, n |-> 0]
Num(n) == [t |-> "number", s |-> <<>>, n |-> n]
Null   == [t |-> "null",   s |-> <<>>, n |-> 0]

DigitChar(d) ==
    CASE d = 0 -> "0" [] d = 1 -> "1" [] d = 2 -> "2" [] d = 3 -> "3"
      [] d = 4 -> "4" [] d = 5 -> "5" [] d = 6 -> "6" [] d = 7 -> "7"
      [] d = 8 -> "8" [] d = 9 -> "9"

RECURSIVE NumberToString(_)
NumberToString(n) ==
    IF n < 10 THEN <<DigitChar(n)>>
    ELSE NumberToString(n \div 10) \o <<DigitChar(n % 10)>>

\* the string coercion applied by RegExp.prototype.test and by template
\* literals to a value that is not a string
StringOf(v) ==
    CASE v.t = "string" -> v.s
      [] v.t = "number" -> NumberToString(v.n)
      [] v.t = "null"   -> <<"n","u","l","l">>

(* ---------------- the provider table ---------------- *)

ProviderIds == <<"openai", "anthropic", "google", "mistral">>

KnownProviders == {ProviderIds[i] : i \in 1..Len(ProviderIds)}

T3BlbkFJ == <<"T","3","B","l","b","k","F","J">>

\* /^sk-[a-zA-Z0-9]{20,}T3BlbkFJ[a-zA-Z0-9]{20,}$/
OpenaiPattern(s) ==
    /\ startsWith(s, <<"s","k","-">>)
    /\ \E i \in 4..Len(s) :
          /\ i - 4 >= 20
          /\ AllIn(s, 4, i - 1, Alnum)
          /\ i + 7 <= Len(s)
          /\ SubSeq(s, i, i + 7) = T3BlbkFJ
          /\ Len(s) - (i + 7) >= 20
          /\ AllIn(s, i + 8, Len(s), Alnum)

\* /^sk-ant-api[0-9]{2}-[a-zA-Z0-9_\-]{95}$/
AnthropicPattern(s) ==
    /\ Len(s) = 13 + 95
    /\ startsWith(s, <<"s","k","-","a","n","t","-","a","p","i">>)
    /\ AllIn(s, 11, 12, Digits)
    /\ s[13] = "-"
    /\ AllIn(s, 14, Len(s), AlnumDash)

\* /^AIzaSy[a-zA-Z0-9_\-]{33}$/
GooglePattern(s) ==
    /\ Len(s) = 6 + 33
    /\ startsWith(s, <<"A","I","z","a","S","y">>)
    /\ AllIn(s, 7, Len(s), AlnumDash)

\* /^[a-zA-Z0-9]{32}$/
MistralPattern(s) ==
    /\ Len(s) = 32
    /\ AllIn(s, 1, Len(s), Alnum)

\* providers[p].apiKeyPattern.test(key): test() coerces its argument
apiKeyPattern(p, key) ==
    CASE p = "openai"    -> OpenaiPattern(StringOf(key))
      [] p = "anthropic" -> AnthropicPattern(StringOf(key))
      [] p = "google"    -> GooglePattern(StringOf(key))
      [] p = "mistral"   -> MistralPattern(StringOf(key))

NoKeyText == <<>>

\* providers[p].validationUrl, as the fixed part and the key it embeds
validationUrl(p, key) ==
    CASE p = "openai"    -> [base |-> "https://api.openai.com/v1/models",
                             query |-> "", key |-> NoKeyText]
      [] p = "anthropic" -> [base |-> "https://api.anthropic.com/v1/messages",
                             query |-> "", key |-> NoKeyText]
      [] p = "google"    -> [base |-> "https://generativelanguage.googleapis.com/v1beta/models",
                             query |-> "?key=", key |-> StringOf(key)]
      [] p = "mistral"   -> [base |-> "https://api.mistral.ai/v1/models",
                             query |-> "", key |-> NoKeyText]

\* providers[p].authHeader(key): a set of headers, each a fixed text
\* followed by the key text it carries
authHeader(p, key) ==
    CASE p = "openai"    -> {[name |-> "Authorization", text |-> "Bearer ", key |-> StringOf(key)]}
      [] p = "anthropic" -> {[name |-> "x-api-key", text |-> "", key |-> StringOf(key)],
                             [name |-> "anthropic-version", text |-> "2023-06-01", key |-> NoKeyText],
                             [name |-> "content-type", text |-> "application/json", key |-> NoKeyText]}
      [] p = "google"    -> {}
      [] p = "mistral"   -> {[name |-> "Authorization", text |-> "Bearer ", key |-> StringOf(key)]}

NoRequestBody == "null"

\* providers[p].validationBody(), null where the provider has none
validationBody(p) ==
    IF p = "anthropic"
    THEN "{model:claude-3-haiku-20240307,max_tokens:1,messages:[{role:user,content:.}]}"
    ELSE NoRequestBody


\* own properties of `providers`, then what the lookup providers[name]
\* finds on Object.prototype, then undefined
ObjectPrototypeNames == {"constructor", "toString", "__proto__", "valueOf",
                         "hasOwnProperty", "isPrototypeOf", "toLocaleString",
                         "propertyIsEnumerable"}

providers(name) ==
    IF name \in KnownProviders THEN name
    ELSE IF name \in ObjectPrototypeNames THEN "inherited"
    ELSE "undefined"

(* ---------------- identifyProvider ---------------- *)

RECURSIVE FirstMatch(_, _)
FirstMatch(key, i) ==
    IF i > Len(ProviderIds) THEN "null"
    ELSE IF apiKeyPattern(ProviderIds[i], key) THEN ProviderIds[i]
    ELSE FirstMatch(key, i + 1)

\* identifyProvider without the legacy sk- fallback of line 62
identifyProviderNoFallback(key) ==
    IF FirstMatch(key, 1) # "null" THEN FirstMatch(key, 1)
    ELSE IF key.t # "string" THEN "TypeError"
    ELSE "null"

\* a provider id, "null", or "TypeError" where key.startsWith is not
\* callable because the key is not a string
identifyProvider(key) ==
    IF FirstMatch(key, 1) # "null" THEN FirstMatch(key, 1)
    ELSE IF key.t # "string" THEN "TypeError"
    ELSE IF startsWith(key.s, <<"s","k","-">>) THEN "openai"
    ELSE "null"

(* ---------------- checkApiKey, up to its await ---------------- *)

NoHint == [def |-> FALSE, s |-> ""]
Hint(s) == [def |-> TRUE, s |-> s]

\* provider resolution that lets the key's pattern win over the hint
ResolveProviderPatternFirst(key, providerHint) ==
    IF identifyProvider(key) \in KnownProviders THEN identifyProvider(key)
    ELSE IF /\ providerHint.def
            /\ providerHint.s # ""
            /\ providerHint.s # "auto"
            /\ providers(providerHint.s) # "undefined"
    THEN providers(providerHint.s)
    ELSE identifyProvider(key)

\* lines 73-78: the provider checkApiKey settles on
ResolveProvider(key, providerHint) ==
    IF /\ providerHint.def
       /\ providerHint.s # ""
       /\ providerHint.s # "auto"
       /\ providers(providerHint.s) # "undefined"
    THEN providers(providerHint.s)
    ELSE identifyProvider(key)

\* a request whose method does not depend on the body
BuildRequestAlwaysGet(p, key) ==
    [provider |-> p,
     method   |-> "GET",
     url      |-> validationUrl(p, key),
     headers  |-> authHeader(p, key),
     body     |-> validationBody(p)]

\* lines 85-88 and 95-100: the request handed to fetch
BuildRequest(p, key) ==
    [provider |-> p,
     method   |-> IF validationBody(p) # NoRequestBody THEN "POST" ELSE "GET",
     url      |-> validationUrl(p, key),
     headers  |-> authHeader(p, key),
     body     |-> validationBody(p)]

\* checkApiKey without line 92: the fetch is issued with no timer
checkApiKeyNoTimer(key, providerHint) ==
    LET p == ResolveProvider(key, providerHint) IN
    IF p = "null" THEN
        [provider |-> "null", ret |-> "false",
         timer |-> "none", fetch |-> "none", status |-> 0]
    ELSE IF p \in {"TypeError", "inherited"} THEN
        [provider |-> p, ret |-> "throw",
         timer |-> "none", fetch |-> "none", status |-> 0]
    ELSE
        [provider |-> p, ret |-> "pending",
         timer |-> "none", fetch |-> "inflight", status |-> 0]

\* one invocation of checkApiKey run to its first suspension: it has
\* returned false, thrown, or armed its timer and issued its fetch
checkApiKey(key, providerHint) ==
    LET p == ResolveProvider(key, providerHint) IN
    IF p = "null" THEN
        [provider |-> "null", ret |-> "false",
         timer |-> "none", fetch |-> "none", status |-> 0]
    ELSE IF p \in {"TypeError", "inherited"} THEN
        [provider |-> p, ret |-> "throw",
         timer |-> "none", fetch |-> "none", status |-> 0]
    ELSE
        [provider |-> p, ret |-> "pending",
         timer |-> "armed", fetch |-> "inflight", status |-> 0]

\* a success test that accepts status 200 only
okOnly200(status) == status = 200

\* response.ok
ok(status) == status >= 200 /\ status <= 299

(* ---------------- responses ---------------- *)

NoResponse == [status |-> 0, kind |-> "none", text |-> "", results |-> <<>>, cors |-> FALSE]

TextResponse(st, txt, c) ==
    [status |-> st, kind |-> "text", text |-> txt, results |-> <<>>, cors |-> c]

EmptyResponse(c) ==
    [status |-> 200, kind |-> "empty", text |-> "", results |-> <<>>, cors |-> c]

JsonResponse(res, c) ==
    [status |-> 200, kind |-> "json", text |-> "", results |-> res, cors |-> c]


(* ---------------- requests the worker can receive ---------------- *)

kOpenai    == Str(<<"s","k","-">> \o Rep("a", 20) \o T3BlbkFJ \o Rep("b", 20))
kAnthropic == Str(<<"s","k","-","a","n","t","-","a","p","i","0","3","-">> \o Rep("c", 95))
kGoogle    == Str(<<"A","I","z","a","S","y">> \o Rep("d", 33))
kMistral   == Str(Rep("e", 32))
\* an sk-ant- key that is not well formed
kSkAnt     == Str(<<"s","k","-","a","n","t","-","x">>)
kBad       == Str(<<"b","a","d","-","k","e","y">>)

KeyValues == {kOpenai, kAnthropic, kGoogle, kMistral, kSkAnt, kBad, Num(123), Null}

\* the key values that batches of several keys are made of
BatchKeyValues == {kOpenai, kGoogle, kBad, Num(123)}

Hints == {NoHint, Hint("auto"), Hint("openai"), Hint("anthropic"),
          Hint("google"), Hint("mistral"), Hint("constructor"), Hint("bogus")}

KeyArrays ==
    UNION {[1..n -> BatchKeyValues] : n \in 0..MaxKeys}
    \cup {<<k>> : k \in KeyValues}

ArrayBody(ks, h) == [json |-> "object", keysType |-> "array", keys |-> ks, provider |-> h]

OtherBody(j, kt) == [json |-> j, keysType |-> kt, keys |-> <<>>, provider |-> NoHint]

Bodies ==
    {ArrayBody(ks, h) : ks \in KeyArrays, h \in Hints}
    \cup {OtherBody("invalid", "undefined"), OtherBody("null", "undefined"),
          OtherBody("number", "undefined")}
    \cup {OtherBody("object", kt) : kt \in {"undefined", "null", "string", "object", "number"}}

Requests ==
    {[method |-> m, body |-> OtherBody("invalid", "undefined")] : m \in {"OPTIONS", "GET"}}
    \cup {[method |-> "POST", body |-> b] : b \in Bodies}

\* statuses a provider may answer with
Statuses == {200, 204, 401}

(* ---------------- state ---------------- *)

Init ==
    /\ pc = "idle"
    /\ handler = "none"
    /\ request = [method |-> "OPTIONS", body |-> OtherBody("invalid", "undefined")]
    /\ calls = <<>>
    /\ outbound = <<>>
    /\ completed = <<>>
    /\ response = NoResponse
    /\ console = <<>>
    /\ fePc = "idle"
    /\ feKeys = <<>>
    /\ resultsDiv = [rows |-> <<>>, error |-> FALSE]
    /\ btnDisabled = FALSE
    /\ feAnswer = [kind |-> "none", results |-> <<>>]
    /\ feInFlight = 0

(* ---------------- the multi-provider handleRequest ---------------- *)

\* a console line: its fixed text and the piece of the key it carries
LogLine(level, text, key) ==
    [level |-> level, text |-> text, prefix |-> substring(key, 0, 8)]

\* a console line that carries no key
PlainLine(level, text) == [level |-> level, text |-> text, prefix |-> <<>>]

\* line 81, for every invocation that found no provider, in call order
NotFoundLines(keys, cs) ==
    LET idx == SelectSeq([i \in 1..Len(cs) |-> i], LAMBDA i : cs[i].provider = "null")
    IN  [j \in 1..Len(idx) |->
            LogLine("log", "Provider not found for key starting with: ", keys[idx[j]].s)]

\* what the catch block returns: false, or the TypeError of
\* key.substring when the key is not a string
CatchReturn(key) == IF key.t = "string" THEN "false" ELSE "throw"

\* the console after the catch block of call i; why is "abort" or "error"
CatchConsole(i, why) ==
    LET key == request.body.keys[i] IN
    IF key.t # "string" THEN console
    ELSE IF handler = "gemini" THEN
        Append(console, LogLine("error", "Error validating Gemini key starting with ", key.s))
    ELSE IF why = "abort" THEN
        Append(console, LogLine("error", "Request timed out for key starting with ", key.s))
    ELSE
        Append(console, LogLine("error", "Error validating key starting with ", key.s))

\* issue that skips a key whose value already has a fetch in the batch
IssuedDedup(keys, cs) ==
    LET idx == SelectSeq([i \in 1..Len(cs) |-> i],
                         LAMBDA i : /\ cs[i].fetch = "inflight"
                                    /\ \A h \in 1..(i - 1) : keys[h] # keys[i])
    IN  [j \in 1..Len(idx) |->
            [idx |-> idx[j], req |-> BuildRequest(cs[idx[j]].provider, keys[idx[j]])]]

\* the fetches issued by the invocations of checkApiKey, in issue order
Issued(keys, cs) ==
    LET idx == SelectSeq([i \in 1..Len(cs) |-> i], LAMBDA i : cs[i].fetch = "inflight")
    IN  [j \in 1..Len(idx) |->
            [idx |-> idx[j], req |-> BuildRequest(cs[idx[j]].provider, keys[idx[j]])]]

\* results collected in the order the validations complete: those that
\* return without a fetch first, then the fetches as they settle
PromiseAllCompletionOrder(keys, cs, order) ==
    LET first == SelectSeq([i \in 1..Len(cs) |-> i], LAMBDA i : cs[i].fetch = "none")
        ord   == first \o order
    IN  [j \in 1..Len(ord) |-> [key |-> keys[ord[j]], isValid |-> cs[ord[j]].ret = "true"]]

\* Promise.all over the mapped promises: one entry per index
PromiseAll(keys, cs, order) ==
    [i \in 1..Len(cs) |-> [key |-> keys[i], isValid |-> cs[i].ret = "true"]]

\* a join that is satisfied by the first validation to return
SettledAny(cs) == cs = <<>> \/ \E i \in 1..Len(cs) : cs[i].ret # "pending"

Settled(cs) == \A i \in 1..Len(cs) : cs[i].ret # "pending"

Rejected(cs) == \E i \in 1..Len(cs) : cs[i].ret = "throw"

\* request.json() rejects, or destructuring its value throws
JsonThrows(body) == body.json \in {"invalid", "null"}

\* a test of `keys` that only rules out undefined and null
ArrayIsArrayLoose(body) ==
    body.json = "object" /\ body.keysType \notin {"undefined", "null"}

\* Array.isArray(keys) on the destructured body
ArrayIsArray(body) == body.json = "object" /\ body.keysType = "array"

handleRequest(r) ==
    /\ pc = "idle"
    /\ UNCHANGED feVars
    /\ handler' = "multi"
    /\ request' = r
    /\ completed' = <<>>
    /\ IF r.method = "OPTIONS" THEN
          /\ response' = EmptyResponse(TRUE)
          /\ pc' = "done"
          /\ UNCHANGED <<calls, outbound, console>>
       ELSE IF r.method # "POST" THEN
          /\ response' = TextResponse(405, "Method Not Allowed", TRUE)
          /\ pc' = "done"
          /\ UNCHANGED <<calls, outbound, console>>
       ELSE IF JsonThrows(r.body) THEN
          /\ response' = TextResponse(400, "Invalid JSON in request body.", TRUE)
          /\ pc' = "done"
          /\ UNCHANGED <<calls, outbound, console>>
       ELSE IF ~ArrayIsArray(r.body) THEN
          /\ response' = TextResponse(400, "Invalid request body: \"keys\" should be an array.", TRUE)
          /\ pc' = "done"
          /\ UNCHANGED <<calls, outbound, console>>
       ELSE
          LET cs == [i \in 1..Len(r.body.keys) |-> checkApiKey(r.body.keys[i], r.body.provider)]
          IN  /\ calls' = cs
              /\ outbound' = Issued(r.body.keys, cs)
              /\ console' = NotFoundLines(r.body.keys, cs)
              /\ IF Rejected(cs) THEN
                    /\ response' = TextResponse(400, "Invalid JSON in request body.", TRUE)
                    /\ pc' = "done"
                 ELSE IF Settled(cs) THEN
                    /\ response' = JsonResponse(PromiseAll(r.body.keys, cs, <<>>), TRUE)
                    /\ pc' = "done"
                 ELSE
                    /\ response' = NoResponse
                    /\ pc' = "awaiting"

\* the continuation of handleRequest after one checkApiKey has returned
Join(cs, order) ==
    IF pc = "awaiting" /\ Rejected(cs)
    THEN /\ response' = TextResponse(400, "Invalid JSON in request body.", TRUE)
         /\ pc' = "done"
    ELSE IF pc = "awaiting" /\ Settled(cs)
    THEN /\ response' = JsonResponse(PromiseAll(request.body.keys, cs, order), TRUE)
         /\ pc' = "done"
    ELSE UNCHANGED <<response, pc>>

\* responses taken one key after the other, as a loop that awaits each
\* validation before the next would
FetchResponseInOrder(i, st) ==
    /\ i \in 1..Len(calls)
    /\ calls[i].fetch = "inflight"
    /\ \A h \in 1..(i - 1) : calls[h].fetch # "inflight"
    /\ calls' = [calls EXCEPT ![i].fetch = "response", ![i].status = st,
                              ![i].timer = "cleared",
                              ![i].ret = IF ok(st) THEN "true" ELSE "false"]
    /\ completed' = Append(completed, i)
    /\ Join(calls', completed')
    /\ UNCHANGED <<handler, request, outbound, console, feVars>>

\* a response path that leaves the timer armed
FetchResponseNoClear(i, st) ==
    /\ i \in 1..Len(calls)
    /\ calls[i].fetch = "inflight"
    /\ calls' = [calls EXCEPT ![i].fetch = "response", ![i].status = st,
                              ![i].ret = IF ok(st) THEN "true" ELSE "false"]
    /\ completed' = Append(completed, i)
    /\ Join(calls', completed')
    /\ UNCHANGED <<handler, request, outbound, console, feVars>>

\* the provider answers call i before its timer fires
FetchResponse(i, st) ==
    /\ i \in 1..Len(calls)
    /\ calls[i].fetch = "inflight"
    /\ calls' = [calls EXCEPT ![i].fetch = "response", ![i].status = st,
                              ![i].timer = "cleared",
                              ![i].ret = IF ok(st) THEN "true" ELSE "false"]
    /\ completed' = Append(completed, i)
    /\ Join(calls', completed')
    /\ UNCHANGED <<handler, request, outbound, console, feVars>>

\* a catch path without clearTimeout
FetchErrorNoClear(i) ==
    /\ i \in 1..Len(calls)
    /\ calls[i].fetch = "inflight"
    /\ calls' = [calls EXCEPT ![i].fetch = "error",
                              ![i].ret = CatchReturn(request.body.keys[i])]
    /\ console' = CatchConsole(i, "error")
    /\ completed' = Append(completed, i)
    /\ Join(calls', completed')
    /\ UNCHANGED <<handler, request, outbound, feVars>>

\* the fetch of call i fails at transport level
FetchError(i) ==
    /\ i \in 1..Len(calls)
    /\ calls[i].fetch = "inflight"
    /\ calls' = [calls EXCEPT ![i].fetch = "error", ![i].timer = "cleared",
                              ![i].ret = CatchReturn(request.body.keys[i])]
    /\ console' = CatchConsole(i, "error")
    /\ completed' = Append(completed, i)
    /\ Join(calls', completed')
    /\ UNCHANGED <<handler, request, outbound, feVars>>

\* one controller shared by the batch: a timer aborts every open fetch
TimerFireShared(i) ==
    /\ i \in 1..Len(calls)
    /\ calls[i].timer = "armed"
    /\ calls' = [j \in 1..Len(calls) |->
                    IF calls[j].fetch = "inflight"
                    THEN [calls[j] EXCEPT !.fetch = "aborted",
                                          !.ret = CatchReturn(request.body.keys[j]),
                                          !.timer = IF j = i THEN "fired" ELSE "cleared"]
                    ELSE calls[j]]
    /\ console' = CatchConsole(i, "abort")
    /\ completed' = Append(completed, i)
    /\ Join(calls', completed')
    /\ UNCHANGED <<handler, request, outbound, feVars>>

\* the timer of call i fires: controller.abort() rejects the fetch
TimerFire(i) ==
    /\ i \in 1..Len(calls)
    /\ calls[i].timer = "armed"
    /\ calls' = [calls EXCEPT ![i].fetch = "aborted", ![i].timer = "fired",
                              ![i].ret = CatchReturn(request.body.keys[i])]
    /\ console' = CatchConsole(i, "abort")
    /\ completed' = Append(completed, i)
    /\ Join(calls', completed')
    /\ UNCHANGED <<handler, request, outbound, feVars>>

(* ---------------- the Gemini-only worker ---------------- *)

\* checkGeminiApiKey run to its await: it returned false, threw because
\* key.startsWith is not callable, or armed its timer and issued its GET.
\* Its try/catch/finally then ends as checkApiKey's does: the timer is
\* cleared on a response and on an exception, and an abort gives false.
checkGeminiApiKey(key) ==
    IF key.t # "string" THEN
        [provider |-> "TypeError", ret |-> "throw",
         timer |-> "none", fetch |-> "none", status |-> 0]
    ELSE IF ~startsWith(key.s, <<"A","I","z","a","S","y">>) THEN
        [provider |-> "null", ret |-> "false",
         timer |-> "none", fetch |-> "none", status |-> 0]
    ELSE
        [provider |-> "google", ret |-> "pending",
         timer |-> "armed", fetch |-> "inflight", status |-> 0]

\* the Gemini-only worker ignores `provider`
GeminiRequests == {r \in Requests : r.body.provider = NoHint}

\* the exported fetch of the Gemini-only worker: corsWrapper around its
\* handleRequest, up to the await of Promise.all
handleRequestGemini(r) ==
    /\ pc = "idle"
    /\ UNCHANGED feVars
    /\ handler' = "gemini"
    /\ request' = r
    /\ completed' = <<>>
    /\ IF r.method = "OPTIONS" THEN
          /\ response' = EmptyResponse(TRUE)
          /\ pc' = "done"
          /\ UNCHANGED <<calls, outbound, console>>
       ELSE IF r.method # "POST" THEN
          /\ response' = TextResponse(405, "Method Not Allowed", TRUE)
          /\ pc' = "done"
          /\ UNCHANGED <<calls, outbound, console>>
       ELSE IF JsonThrows(r.body) THEN
          /\ response' = TextResponse(400, "Invalid JSON in request body.", TRUE)
          /\ console' = <<PlainLine("error", "Error parsing JSON or processing request:")>>
          /\ pc' = "done"
          /\ UNCHANGED <<calls, outbound>>
       ELSE IF ~ArrayIsArray(r.body) THEN
          /\ response' = TextResponse(400, "Invalid request body: \"keys\" should be an array.", TRUE)
          /\ pc' = "done"
          /\ UNCHANGED <<calls, outbound, console>>
       ELSE
          LET cs == [i \in 1..Len(r.body.keys) |-> checkGeminiApiKey(r.body.keys[i])]
          IN  /\ calls' = cs
              /\ outbound' = Issued(r.body.keys, cs)
              /\ console' = IF Rejected(cs)
                            THEN <<PlainLine("error", "Error parsing JSON or processing request:")>>
                            ELSE <<>>
              /\ IF Rejected(cs) THEN
                    /\ response' = TextResponse(400, "Invalid JSON in request body.", TRUE)
                    /\ pc' = "done"
                 ELSE IF Settled(cs) THEN
                    /\ response' = JsonResponse(PromiseAll(r.body.keys, cs, <<>>), TRUE)
                    /\ pc' = "done"
                 ELSE
                    /\ response' = NoResponse
                    /\ pc' = "awaiting"

(* ---------------- functions/check.js ---------------- *)

\* handleRequest of functions/check.js; it has no path that throws
handleRequestDebug(r) ==
    IF r.method # "POST" THEN TextResponse(405, "Method Not Allowed", FALSE)
    ELSE IF JsonThrows(r.body) THEN
        TextResponse(400, "Invalid JSON in request body.", FALSE)
    ELSE IF ~ArrayIsArray(r.body) THEN
        TextResponse(400, "Invalid request body: \"keys\" should be an array.", FALSE)
    ELSE
        JsonResponse([i \in 1..Len(r.body.keys) |-> [key |-> r.body.keys[i], isValid |-> TRUE]],
                     FALSE)

\* what awaiting the wrapped handler gives: a response, or an exception
Returned(resp) == [threw |-> FALSE, resp |-> resp]
Threw == [threw |-> TRUE, resp |-> NoResponse]

\* the handlers corsWrapper is applied to: handleRequest of the file, and
\* a handler whose promise rejects, which is what the wrapper's catch is for
WrappedHandlers == {"check.js", "rejecting"}

CallHandler(h, r) ==
    IF h = "check.js" THEN Returned(handleRequestDebug(r)) ELSE Threw

\* a wrapper without the catch: the exception leaves no response
WrapOutcomeNoCatch(out) ==
    IF out.threw THEN NoResponse
    ELSE [out.resp EXCEPT !.cors = TRUE]

\* lines 134-157 of corsWrapper: the CORS headers are set on the handler's
\* response, and an exception becomes the generic 500
WrapOutcome(out) ==
    IF out.threw THEN TextResponse(500, "Internal Server Error", TRUE)
    ELSE [out.resp EXCEPT !.cors = TRUE]

\* corsWrapper(handler) of functions/check.js serving request r
corsWrapper(h, r) ==
    /\ pc = "idle"
    /\ handler' = h
    /\ request' = r
    /\ response' = IF r.method = "OPTIONS" THEN EmptyResponse(TRUE)
                   ELSE WrapOutcome(CallHandler(h, r))
    /\ console' = IF r.method = "OPTIONS" THEN <<>>
                  ELSE IF CallHandler(h, r).threw
                  THEN <<PlainLine("error", "Unhandled error in request handler:")>>
                  ELSE IF r.method = "POST" /\ JsonThrows(r.body)
                  THEN <<PlainLine("error", "Error parsing JSON or processing request:")>>
                  ELSE <<>>
    /\ pc' = "done"
    /\ UNCHANGED <<calls, outbound, completed, feVars>>

(* ---------------- specification ---------------- *)

Next ==
    \/ \E r \in Requests : handleRequest(r)
    \/ \E h \in WrappedHandlers, r \in Requests : corsWrapper(h, r)
    \/ \E r \in GeminiRequests : handleRequestGemini(r)
    \/ \E i \in 1..MaxKeys, st \in Statuses : FetchResponse(i, st)
    \/ \E i \in 1..MaxKeys : FetchError(i)
    \/ \E i \in 1..MaxKeys : TimerFire(i)

Spec == Init /\ [][Next]_vars

\* the runtime runs every timer that is due
FairSpec == Spec /\ \A i \in 1..MaxKeys : WF_vars(TimerFire(i))


(* ---------------- the page script ---------------- *)

workerVars == <<pc, handler, request, calls, outbound, completed, response, console>>

\* the lines a user types; the empty string is a blank line
Lines == {"", "k1", "k2"}

TextareaValues == UNION {[1..n -> Lines] : n \in 0..MaxLines}

RECURSIVE TrimLeft(_)
TrimLeft(ls) ==
    IF ls = <<>> THEN <<>>
    ELSE IF Head(ls) = "" THEN TrimLeft(Tail(ls))
    ELSE ls

RECURSIVE TrimRight(_)
TrimRight(ls) ==
    IF ls = <<>> THEN <<>>
    ELSE IF ls[Len(ls)] = "" THEN TrimRight(SubSeq(ls, 1, Len(ls) - 1))
    ELSE ls

\* value.trim().split('\n').filter(key => key.length > 0), on a value
\* given as its lines
SplitKeys(ls) == SelectSeq(TrimRight(TrimLeft(ls)), LAMBDA l : l # "")

\* the row created for a key, in the 'checking' state
NewRow(key) == [id |-> key, text |-> "checking", classes |-> {"status", "checking"}]

\* document.getElementById: the first element with that id, 0 for null
GetElementById(rows, id) ==
    IF \E j \in 1..Len(rows) : rows[j].id = id
    THEN CHOOSE j \in 1..Len(rows) :
            /\ rows[j].id = id
            /\ \A h \in 1..(j - 1) : rows[h].id # id
    ELSE 0

\* lines 51-57 for one result
UpdateRow(rows, result) ==
    LET j == GetElementById(rows, result.key)
        v == IF result.isValid THEN "valid" ELSE "invalid"
    IN  IF j = 0 THEN rows
        ELSE [rows EXCEPT ![j].text = v,
                          ![j].classes = (@ \ {"checking"}) \cup {v}]

\* results.forEach over results[k..]
RECURSIVE UpdateRows(_, _, _)
UpdateRows(rows, results, k) ==
    IF k > Len(results) THEN rows
    ELSE UpdateRows(UpdateRow(rows, results[k]), results, k + 1)

\* a click on the button; a disabled button dispatches no click
Click(ls) ==
    /\ ~btnDisabled
    /\ IF SplitKeys(ls) = <<>> THEN
          UNCHANGED feVars
       ELSE
          /\ feKeys' = SplitKeys(ls)
          /\ resultsDiv' = [rows |-> [i \in 1..Len(SplitKeys(ls)) |-> NewRow(SplitKeys(ls)[i])],
                            error |-> FALSE]
          /\ btnDisabled' = TRUE
          /\ fePc' = "waiting"
          /\ feAnswer' = [kind |-> "none", results |-> <<>>]
          /\ feInFlight' = feInFlight + 1
    /\ UNCHANGED workerVars

\* the worker answers 200 with the results array of the submitted keys
ServerResults(valid) ==
    /\ fePc = "waiting"
    /\ LET results == [i \in 1..Len(feKeys) |-> [key |-> feKeys[i], isValid |-> valid[i]]]
       IN  /\ feAnswer' = [kind |-> "results", results |-> results]
           /\ resultsDiv' = [resultsDiv EXCEPT !.rows = UpdateRows(@, results, 1)]
    /\ btnDisabled' = FALSE
    /\ fePc' = "idle"
    /\ feInFlight' = feInFlight - 1
    /\ UNCHANGED <<feKeys, workerVars>>

\* what makes the try block throw: a status that is not ok, a fetch that
\* rejects, a body that response.json() cannot parse
FailureKinds == {"http-error", "network-error", "invalid-json"}

\* a failure handled without the finally block: the button stays disabled
ServerFailureNoFinally(kind) ==
    /\ fePc = "waiting"
    /\ feAnswer' = [kind |-> kind, results |-> <<>>]
    /\ resultsDiv' = [rows |-> <<>>, error |-> TRUE]
    /\ fePc' = "idle"
    /\ feInFlight' = feInFlight - 1
    /\ UNCHANGED <<feKeys, btnDisabled, workerVars>>

\* the try block throws: the catch replaces the rows with the error
\* paragraph and the finally block enables the button
ServerFailure(kind) ==
    /\ fePc = "waiting"
    /\ feAnswer' = [kind |-> kind, results |-> <<>>]
    /\ resultsDiv' = [rows |-> <<>>, error |-> TRUE]
    /\ btnDisabled' = FALSE
    /\ fePc' = "idle"
    /\ feInFlight' = feInFlight - 1
    /\ UNCHANGED <<feKeys, workerVars>>

FrontNext ==
    \/ \E ls \in TextareaValues : Click(ls)
    \/ \E valid \in [1..Len(feKeys) -> BOOLEAN] : ServerResults(valid)
    \/ \E kind \in FailureKinds : ServerFailure(kind)

FrontSpec == Init /\ [][FrontNext]_vars

(* ---------------- properties ---------------- *)

\* the multi-provider handler took a POST whose body has an array `keys`
MultiArray ==
    /\ handler = "multi"
    /\ request.method = "POST"
    /\ request.body.json = "object"
    /\ request.body.keysType = "array"

Keys == request.body.keys

ProviderHint == request.body.provider

\* the hint names one of the four providers
KnownHint == ProviderHint.def /\ ProviderHint.s \in {"openai", "anthropic", "google", "mistral"}

\* `auto`, absent: the hints that ask for pattern matching
AutoHint == ~ProviderHint.def \/ ProviderHint.s = "auto"

\* a key string that matches no provider pattern and does not start with sk-
UnknownShape(key) ==
    /\ key.t = "string"
    /\ ~OpenaiPattern(key.s)
    /\ ~AnthropicPattern(key.s)
    /\ ~GooglePattern(key.s)
    /\ ~MistralPattern(key.s)
    /\ ~startsWith(key.s, <<"s","k","-">>)

IssuedFor(i) == \E j \in 1..Len(outbound) : outbound[j].idx = i

\* C1: when every validation of a POST with an array `keys` has returned,
\* the response is the 200 array with one entry per key, entry i echoing
\* keys[i] and carrying the outcome of validation i, in input order,
\* whatever the completion order and with or without duplicates.
C1_OrderPreserved ==
    (MultiArray /\ pc = "done" /\ ~Rejected(calls)) =>
        /\ response.status = 200
        /\ response.kind = "json"
        /\ Len(response.results) = Len(Keys)
        /\ \A i \in 1..Len(Keys) :
              /\ response.results[i].key = Keys[i]
              /\ response.results[i].isValid = (calls[i].ret = "true")

C1_Witness ==
    /\ MultiArray
    /\ response.kind = "json"
    /\ Len(Keys) = 2
    /\ Keys[1] = Keys[2]
    /\ completed = <<2, 1>>
    /\ response.results[1].isValid # response.results[2].isValid

\* C2: for every array `keys` and every `provider`, the handler answers
\* with the full results array; a 400/500 is produced only for a body that
\* is not valid JSON or whose `keys` is not an array.
C2_OneBadKeyNeverFailsBatch ==
    (MultiArray /\ pc = "done") =>
        /\ response.kind = "json"
        /\ response.status \notin {400, 500}
        /\ Len(response.results) = Len(Keys)

\* C3: a key string of unknown shape, with a hint that is absent, `auto`
\* or not a known provider, makes checkApiKey return false with no
\* outbound request and no timer armed.
C3_UnknownShapeReturnsFalse ==
    (MultiArray /\ ~KnownHint) =>
        \A i \in 1..Len(Keys) :
            UnknownShape(Keys[i]) =>
                /\ i \in 1..Len(calls)
                /\ calls[i].ret = "false"
                /\ calls[i].timer = "none"
                /\ ~IssuedFor(i)

\* C4: in a results array of the multi-provider handler, isValid is true
\* exactly for the keys whose outbound request was issued and answered,
\* before its timer fired, with a status in 200..299.
C4_ValidIffSuccessStatus ==
    (handler = "multi" /\ response.kind = "json") =>
        \A i \in 1..Len(response.results) :
            response.results[i].isValid <=>
                /\ IssuedFor(i)
                /\ calls[i].fetch = "response"
                /\ calls[i].timer # "fired"
                /\ calls[i].status \in 200..299

C4_Witness ==
    /\ handler = "multi"
    /\ response.kind = "json"
    /\ \E i, j \in 1..Len(response.results) :
          /\ response.results[i].isValid
          /\ calls[i].status = 204
          /\ calls[j].fetch = "aborted"
          /\ ~response.results[j].isValid

\* C5: the handler exported by functions/check.js reports isValid false
\* for every key of unknown shape when no valid hint is given.
C5_CheckJsRejectsUnknownShape ==
    (handler = "check.js" /\ response.kind = "json" /\ ~KnownHint) =>
        \A i \in 1..Len(response.results) :
            UnknownShape(Keys[i]) => ~response.results[i].isValid

\* C6: with a hint naming one of the four providers, every key of the
\* batch gets exactly that provider's request, whatever the key's shape.
C6_HintOverridesShape ==
    (MultiArray /\ KnownHint) =>
        /\ Len(outbound) = Len(Keys)
        /\ \A i \in 1..Len(Keys) :
              /\ outbound[i].idx = i
              /\ outbound[i].req.provider = ProviderHint.s
              /\ outbound[i].req.url = validationUrl(ProviderHint.s, Keys[i])
              /\ outbound[i].req.headers = authHeader(ProviderHint.s, Keys[i])
              /\ outbound[i].req.body = validationBody(ProviderHint.s)

C6_Witness ==
    /\ MultiArray
    /\ ProviderHint = Hint("google")
    /\ Keys = <<kOpenai, kBad>>
    /\ Len(outbound) = 2
    /\ \A j \in 1..2 : outbound[j].req.provider = "google"

\* C7: with no hint or hint `auto`, a key string is resolved to the first
\* provider in the order openai, anthropic, google, mistral whose pattern
\* matches it, else to openai when it starts with sk-, else to null.
C7_FirstMatchThenFallback ==
    (MultiArray /\ AutoHint) =>
        \A i \in 1..Len(Keys) :
            Keys[i].t = "string" =>
                LET m == {j \in 1..4 : apiKeyPattern(ProviderIds[j], Keys[i])}
                IN  calls[i].provider =
                        IF m # {}
                        THEN ProviderIds[CHOOSE j \in m : \A k \in m : j <= k]
                        ELSE IF startsWith(Keys[i].s, <<"s","k","-">>) THEN "openai"
                        ELSE "null"

C7_Witness ==
    /\ MultiArray
    /\ AutoHint
    /\ Keys = <<kSkAnt>>
    /\ calls[1].provider = "openai"
    /\ Len(outbound) = 1
    /\ outbound[1].req.url.base = "https://api.openai.com/v1/models"

\* C8: a POST whose body is not valid JSON, or whose `keys` is not an
\* array, is answered 400 with a plain-text message and starts no
\* validation: no outbound call is issued.
C8_BadBodyIs400 ==
    (handler = "multi" /\ request.method = "POST"
        /\ (request.body.json # "object" \/ request.body.keysType # "array")) =>
        /\ pc = "done"
        /\ response.status = 400
        /\ response.kind = "text"
        /\ calls = <<>>
        /\ outbound = <<>>

C8_Witness ==
    /\ handler = "multi"
    /\ request.method = "POST"
    /\ request.body.json = "object"
    /\ request.body.keysType = "string"
    /\ response.status = 400

\* C9: an array `keys` that contains an element that is not a string is
\* rejected with a 4xx before any outbound call is issued for any key,
\* with or without a provider hint.
C9_NonStringKeyRejected ==
    (MultiArray /\ \E i \in 1..Len(Keys) : Keys[i].t # "string") =>
        /\ pc = "done"
        /\ response.status \in 400..499
        /\ outbound = <<>>

\* C10: a call whose timer fired is aborted and its result is false; a
\* call whose response arrived has its timer cleared, keeps the result
\* its status gives, and is never changed afterwards.
\* (The catch block returns false only for a string key: for any other
\* key its log line throws, see CatchReturn.)
C10_TimeoutAbortsOnly ==
    /\ [](\A i \in 1..Len(calls) :
            /\ calls[i].timer = "fired" =>
                  (calls[i].fetch = "aborted" /\ calls[i].ret = "false")
            /\ calls[i].fetch = "response" =>
                  /\ calls[i].timer = "cleared"
                  /\ (calls[i].ret = "true") = (calls[i].status \in 200..299))
    /\ [][\A i \in 1..Len(calls) :
            calls[i].fetch = "response" => calls'[i] = calls[i]]_vars

C10_Witness ==
    /\ Len(calls) = 2
    /\ calls[1].timer = "fired"
    /\ calls[1].ret = "false"
    /\ calls[2].fetch = "response"
    /\ calls[2].ret = "true"
    /\ completed = <<2, 1>>


\* C11: a batch issues exactly one outbound request per key occurrence
\* that resolved to a provider and none for the others; duplicates get
\* their own request, and no request is added later (no retry).
C11_OneRequestPerResolvingKey ==
    /\ [](MultiArray =>
            LET resolving == {i \in 1..Len(Keys) : calls[i].provider \in KnownProviders}
            IN  /\ Len(outbound) = Cardinality(resolving)
                /\ \A i \in resolving :
                      Cardinality({j \in 1..Len(outbound) : outbound[j].idx = i}) = 1
                /\ \A j \in 1..Len(outbound) : outbound[j].idx \in resolving)
    /\ [][pc # "idle" => outbound' = outbound]_vars

C11_Witness ==
    /\ MultiArray
    /\ pc = "done"
    /\ Len(Keys) = 2
    /\ Keys[1] = Keys[2]
    /\ Len(outbound) = 2
    /\ outbound[1].req = outbound[2].req
    /\ calls[1].fetch = "response"
    /\ calls[2].fetch = "error"


\* C12: a handled request has exactly one response, which carries the CORS
\* headers; OPTIONS gets the empty response, a method other than POST and
\* OPTIONS gets 405, and under corsWrapper an exception of the wrapped
\* handler becomes the generic 500.  A response, once produced, never
\* changes.
C12_OneResponseWithCors ==
    /\ [](pc = "done" =>
            /\ response.kind # "none"
            /\ response.cors
            /\ response.status \in {200, 400, 405, 500}
            /\ request.method = "OPTIONS" =>
                  (response.kind = "empty" /\ response.status = 200)
            /\ (request.method \notin {"POST", "OPTIONS"} /\ handler # "rejecting") =>
                  response.status = 405
            /\ (request.method # "OPTIONS" /\ handler = "rejecting") =>
                  response = TextResponse(500, "Internal Server Error", TRUE))
    /\ [](pc # "done" => response.kind = "none")
    /\ [][response.kind # "none" => response' = response]_vars

C12_Witness ==
    /\ pc = "done"
    /\ handler = "rejecting"
    /\ request.method = "POST"
    /\ response.status = 500
    /\ response.cors


\* C13: after the worker has answered with the results of the submitted
\* keys, every displayed row shows valid or invalid as its key's isValid
\* says, and no row is left 'checking', duplicates included.
C13_EveryRowFinal ==
    feAnswer.kind = "results" =>
        /\ Len(resultsDiv.rows) = Len(feAnswer.results)
        /\ \A j \in 1..Len(resultsDiv.rows) :
              /\ resultsDiv.rows[j].text =
                    (IF feAnswer.results[j].isValid THEN "valid" ELSE "invalid")
              /\ "checking" \notin resultsDiv.rows[j].classes


\* C14: every resolving key's fetch is issued by the time the handler
\* first waits, none is issued later, and a call in flight can be answered
\* whatever the state of its siblings.
C14_NoBlocking ==
    /\ [](MultiArray =>
            \A i \in 1..Len(calls) :
                /\ (pc = "awaiting" /\ completed = <<>> /\ calls[i].provider \in KnownProviders)
                      => calls[i].fetch = "inflight"
                /\ calls[i].fetch = "inflight" =>
                      \A st \in Statuses : ENABLED FetchResponse(i, st))
    /\ [][pc # "idle" =>
            \A i \in 1..Len(calls) :
                calls'[i].fetch = "inflight" => calls[i].fetch = "inflight"]_vars

C14_Witness ==
    /\ MultiArray
    /\ Len(calls) = 2
    /\ Len(outbound) = 2
    /\ calls[1].fetch = "inflight"
    /\ calls[2].fetch = "response"
    /\ pc = "awaiting"

\* C15: the step in which the timer of one validation fires changes no
\* other validation, and every sibling still in flight can afterwards be
\* answered with any status.
C15_TimerAbortsOnlyItsCall ==
    /\ [][\A i \in 1..Len(calls) :
            (calls[i].timer = "armed" /\ calls'[i].timer = "fired") =>
                \A j \in 1..Len(calls) : j # i => calls'[j] = calls[j]]_vars
    /\ [](\A i, j \in 1..Len(calls) :
            (calls[i].timer = "fired" /\ calls[j].fetch = "inflight") =>
                /\ calls[j].timer = "armed"
                /\ \A st \in Statuses : ENABLED FetchResponse(j, st))

C15_Witness ==
    /\ Len(calls) = 2
    /\ calls[1].timer = "fired"
    /\ calls[2].fetch = "response"
    /\ calls[2].ret = "true"
    /\ completed = <<1, 2>>

\* C16: with timers that fire, a handler that waits for its batch
\* eventually responds, and every call in flight eventually settles.
C16_BatchCompletes ==
    /\ (pc = "awaiting") ~> (pc = "done" /\ response.kind # "none")
    /\ \A i \in 1..MaxKeys :
          (i <= Len(calls) /\ calls[i].fetch = "inflight")
              ~> (i <= Len(calls) /\ calls[i].fetch # "inflight")

C16_Witness ==
    /\ MultiArray
    /\ pc = "done"
    /\ response.kind = "json"
    /\ Len(calls) = 2
    /\ \A i \in 1..2 : calls[i].fetch = "aborted"

\* C17: a results array is sent only when no call of the batch is in
\* flight and every validation has returned; it has an entry for every
\* key and is never changed afterwards.
C17_ResultsAfterAllComplete ==
    /\ []((handler = "multi" /\ response.kind = "json") =>
            /\ Len(response.results) = Len(Keys)
            /\ \A i \in 1..Len(calls) :
                  /\ calls[i].fetch # "inflight"
                  /\ calls[i].ret \in {"true", "false"})
    /\ [][response.kind = "json" => response' = response]_vars

C17_Witness ==
    /\ handler = "multi"
    /\ response.kind = "json"
    /\ Len(completed) = 2
    /\ calls[1].fetch = "error"
    /\ calls[2].fetch = "response"


\* C18: a validation that has returned, by whichever path, has no pending
\* timer: a timer is pending only while its fetch is in flight, so pending
\* timers never outnumber the validations in flight.  This holds for
\* checkApiKey and for checkGeminiApiKey.
C18_TimerReleased ==
    /\ \A i \in 1..Len(calls) :
          calls[i].timer = "armed" =>
              (calls[i].fetch = "inflight" /\ calls[i].ret = "pending")
    /\ Cardinality({i \in 1..Len(calls) : calls[i].timer = "armed"})
          <= Cardinality({i \in 1..Len(calls) : calls[i].fetch = "inflight"})

C18_Witness ==
    /\ handler = "gemini"
    /\ Len(calls) = 2
    /\ calls[1].fetch = "error"
    /\ calls[1].timer = "cleared"
    /\ calls[2].fetch = "response"
    /\ calls[2].status = 401
    /\ calls[2].timer = "cleared"


\* C19: an issued request is a POST with the minimal body exactly for
\* anthropic (x-api-key carrying the key, plus the version header) and a
\* GET with no body otherwise; openai and mistral use their fixed models
\* URL and `Authorization: Bearer <key>`; google puts the key in the `key`
\* query parameter and sends no Authorization header.
C19_RequestShape ==
    MultiArray =>
        \A j \in 1..Len(outbound) :
            LET q  == outbound[j].req
                k  == StringOf(Keys[outbound[j].idx])
                bearer == [name |-> "Authorization", text |-> "Bearer ", key |-> k]
                hasAuth == \E h \in q.headers : h.name = "Authorization"
            IN  /\ q.provider \in {"openai", "anthropic", "google", "mistral"}
                /\ (q.method = "POST") <=> (q.provider = "anthropic")
                /\ (q.method = "GET") <=> (q.provider # "anthropic")
                /\ (q.body # NoRequestBody) <=> (q.provider = "anthropic")
                /\ q.provider = "openai" =>
                      /\ q.url = [base |-> "https://api.openai.com/v1/models",
                                  query |-> "", key |-> <<>>]
                      /\ q.headers = {bearer}
                /\ q.provider = "mistral" =>
                      /\ q.url = [base |-> "https://api.mistral.ai/v1/models",
                                  query |-> "", key |-> <<>>]
                      /\ q.headers = {bearer}
                /\ q.provider = "google" =>
                      /\ q.url.query = "?key="
                      /\ q.url.key = k
                      /\ ~hasAuth
                /\ q.provider = "anthropic" =>
                      /\ q.url.base = "https://api.anthropic.com/v1/messages"
                      /\ [name |-> "x-api-key", text |-> "", key |-> k] \in q.headers
                      /\ \E h \in q.headers : h.name = "anthropic-version"
                      /\ ~hasAuth

C19_Witness ==
    /\ MultiArray
    /\ Keys = <<kAnthropic>>
    /\ AutoHint
    /\ Len(outbound) = 1
    /\ outbound[1].req.method = "POST"
    /\ outbound[1].req.provider = "anthropic"

\* C20: with a hint that is not one of the four provider ids, a key
\* string is resolved as it is with no hint, by pattern and sk- fallback,
\* and its validation returns a boolean.
C20_UnknownHintIsNoHint ==
    (MultiArray /\ ~KnownHint) =>
        \A i \in 1..Len(Keys) :
            Keys[i].t = "string" =>
                /\ calls[i].provider = identifyProvider(Keys[i])
                /\ calls[i].ret # "throw"

\* the texts handleRequest answers with when it does not answer with JSON
ResponseTexts ==
    { "Method Not Allowed",
      "Invalid JSON in request body.",
      "Invalid request body: \"keys\" should be an array." }

\* C21: no line that checkApiKey logs contains a whole key of the batch,
\* whatever the key's length: what is logged of a key is strictly shorter
\* than the key; and a response carries a key only in the `key` field of
\* its results, a text response being one of the fixed texts.
C21_LogNeverFullKey ==
    MultiArray =>
        /\ \A j \in 1..Len(console) :
              \A i \in 1..Len(Keys) :
                  Keys[i].t = "string" => console[j].prefix # Keys[i].s
        /\ response.kind = "text" => response.text \in ResponseTexts

\* C22: the page has at most one check request in flight; the button is
\* disabled exactly while that request is in flight, so it is enabled
\* again after every answer (results, HTTP error, network error); a
\* request is sent only by a click on the enabled button with at least
\* one non-empty key line, and that click disables the button; a click
\* with no non-empty line changes nothing.
C22_OneRequestButtonReenabled ==
    /\ [](feInFlight \in {0, 1})
    /\ [](btnDisabled <=> feInFlight = 1)
    /\ []((fePc = "idle") <=> (feInFlight = 0))
    /\ [][(feInFlight' > feInFlight) =>
              (~btnDisabled /\ btnDisabled' /\ feKeys' # <<>>)]_vars
    /\ [][(feInFlight' < feInFlight) => ~btnDisabled']_vars
    /\ [][\A ls \in TextareaValues :
              (Click(ls) /\ SplitKeys(ls) = <<>>) => UNCHANGED vars]_vars

C22_Witness ==
    /\ fePc = "idle"
    /\ ~btnDisabled
    /\ feInFlight = 0
    /\ feAnswer.kind = "network-error"
    /\ resultsDiv.error

====
